---- MODULE Spec2Model ----
(***************************************************************************)
(* The nRF DFU protocol engine of nrf-dfu/src/dfu.rs (DfuTarget::process)  *)
(* as a state machine.  A request is handled in one step unless it awaits  *)
(* the flash (create{Data} awaits the erase, write to the Data object      *)
(* awaits the write): such a request takes a step up to the await and a    *)
(* second step when the flash operation completes or fails.                *)
(*                                                                         *)
(* Three specifications share the variables:                               *)
(*   Spec         the engine, given requests directly;                     *)
(*   SpecCodec    DfuRequest::decode and DfuResponse::encode applied to    *)
(*                buffers and responses drawn from bounded sets;           *)
(*   SpecService  the DFU service of src/main.rs: connection tasks that    *)
(*                take the mutex around the engine and hand it the writes  *)
(*                of their connection.                                     *)
(***************************************************************************)
EXTENDS Integers, Sequences, FiniteSets, TLC

---------------------------------------------------------------------------
(* Bounds of the exploration.                                              *)

\* largest declared size a create request carries
MaxSize == 2
\* longest payload of one write request
MaxPayload == 2
\* bytes accepted into the two objects together since they were last reset
MaxOffset == 2
\* largest receipt-notification interval a client sets
MaxInterval == 2
\* successful writes followed since the receipt counter was last zeroed
MaxWrites == 3
\* largest value the receipt counter is followed to
MaxCount == 2
\* capacity the flash device reports at session start
FlashCapacity == 4

(* Program constants.                                                      *)
DFU_PROTOCOL_VERSION == 1
DFU_MTU == 32
OBJ_TYPE_COMMAND_IDX == 0
OBJ_TYPE_DATA_IDX == 1
COMMAND_OBJECT_SIZE == 512

\* one payload of each length: 0xAA, 0x55, 0xAA, ... cut to the length
Payloads == {[i \in 1..n |-> IF i % 2 = 1 THEN 170 ELSE 85] : n \in 0..MaxPayload}
Sizes == {1, MaxSize}
Intervals == 0..MaxInterval
PingIds == {1, 2}
ImageIds == {0}
ObjectTypes == {"Invalid", "Command", "Data"}

---------------------------------------------------------------------------
(* Running checksum (crate::crc::Crc32): the reflected CRC-32, held as a   *)
(* pair <<high 16 bits, low 16 bits>>.                                     *)

RECURSIVE Xor(_, _)
Xor(a, b) ==
    IF a = 0 THEN b
    ELSE IF b = 0 THEN a
    ELSE (((a % 2) + (b % 2)) % 2) + 2 * Xor(a \div 2, b \div 2)

Xor32(x, y) == <<Xor(x[1], y[1]), Xor(x[2], y[2])>>

Shr32(x, bits) ==
    LET m == 2 ^ bits
    IN  <<x[1] \div m, (x[2] \div m) + (x[1] % m) * (65536 \div m)>>

CRC32_POLY == <<60856, 33568>>

RECURSIVE Crc32Bits(_, _)
Crc32Bits(c, n) ==
    IF n = 0 THEN c
    ELSE Crc32Bits(IF c[2] % 2 = 1 THEN Xor32(Shr32(c, 1), CRC32_POLY)
                                   ELSE Shr32(c, 1), n - 1)

Crc32Table == [i \in 0..255 |-> Crc32Bits(<<0, i>>, 8)]

Crc32Init == <<65535, 65535>>

RECURSIVE Crc32Add(_, _)
Crc32Add(value, data) ==
    IF data = <<>> THEN value
    ELSE Crc32Add(Xor32(Crc32Table[Xor(value[2] % 256, Head(data))],
                        Shr32(value, 8)),
                  Tail(data))

Crc32Finish(value) == <<65535 - value[1], 65535 - value[2]>>

Crc32Reset(value) == Crc32Init

---------------------------------------------------------------------------
(* Engine state (struct DfuTarget), the flash adapter and the bookkeeping  *)
(* of the exchange in progress.                                            *)

VARIABLES
    crc_receipt_interval,   \* DfuTarget.crc_receipt_interval
    receipt_count,          \* DfuTarget.receipt_count
    objects,                \* DfuTarget.objects, slots 0 and 1
    current,                \* DfuTarget.current
    fw_info,                \* DfuTarget.fw_info
    hw_info,                \* DfuTarget.hw_info
    pc,                     \* where process() stands: "idle", "erase", "write"
    request,                \* the request of the last process() call
    result,                 \* what that call returned, if it has returned
    flash_ops,              \* flash operations that call has issued
    pre,                    \* the engine as that call found it
    written,                \* per slot: payload bytes accepted since a create
                            \*   request or abort last reset the slot
    run,                    \* successful writes since a create that returned
                            \*   Success, or abort; skip: those of them that
                            \*   came before the last create that failed
    codec,                  \* the last DfuRequest::decode or DfuResponse::encode
                            \*   call: its arguments and what it returned
    gatt                    \* the connection tasks that share the engine: the
                            \*   mutex around it, each task's place and
                            \*   DfuConnection flags, the characteristic last
                            \*   written, the control characteristic's value,
                            \*   the last notification
    ,
    flash                   \* the flash behind process(): the range that the
                            \*   last erase that returned Ok erased, and the
                            \*   bytes programmed since (followed in
                            \*   SpecFlash only)

target == <<crc_receipt_interval, receipt_count, objects, current, fw_info, hw_info>>
history == <<written, run>>
process == <<target, pc, request, result, flash_ops, pre, history>>
transport == <<codec, gatt, flash>>
vars == <<process, transport>>

\* the mutable fields of DfuTarget as one value
Engine ==
    [crc_receipt_interval |-> crc_receipt_interval,
     receipt_count |-> receipt_count,
     objects |-> objects,
     current |-> current]

NoRequest == [op |-> "None"]
NoResult == [kind |-> "None"]
NoBody == [kind |-> "None"]
NoCodec == [call |-> "None", done |-> TRUE]
NoNotification == [characteristic |-> "None", value |-> <<>>]
NoFlash == [erased |-> 0, dirty |-> {}]

MaxTasks == 2
ATT_MTU == 32
RESPONSE_BUF_LEN == 512

\* the gatt_server_task instances
Tasks == 1..MaxTasks

\* no connection yet: the mutex free (lock 0), every task unspawned
NoGatt ==
    [lock |-> 0,
     task |-> [t \in Tasks |-> "unspawned"],
     notify_control |-> [t \in Tasks |-> FALSE],
     notify_packet |-> [t \in Tasks |-> FALSE],
     characteristic |-> "None",
     control |-> <<>>,
     sent |-> NoNotification,
     panicked |-> FALSE]

NoRun == [k |-> 0, bodies |-> 0, n |-> 0, held |-> TRUE, skip |-> 0, skip_bodies |-> 0]

FirmwareInfo == [ftype |-> "Application", version |-> 1, addr |-> 0, len |-> 3]
HardwareInfo == [part |-> 5, variant |-> 6, rom_size |-> 7, ram_size |-> 8, rom_page_size |-> 9]

\* mutant of NewTarget: the engine starts with the Data object active
NewTargetDataActive(size) ==
    [crc_receipt_interval |-> 0,
     receipt_count |-> 0,
     objects |-> [i \in {0, 1} |->
                    IF i = 0
                    THEN [obj_type |-> "Command", offset |-> 0,
                          crc |-> Crc32Init, size |-> COMMAND_OBJECT_SIZE]
                    ELSE [obj_type |-> "Data", offset |-> 0,
                          crc |-> Crc32Init, size |-> size]],
     current |-> 1]

\* DfuTarget::new(size, fw_info, hw_info)
NewTarget(size) ==
    [crc_receipt_interval |-> 0,
     receipt_count |-> 0,
     objects |-> [i \in {0, 1} |->
                    IF i = 0
                    THEN [obj_type |-> "Command", offset |-> 0,
                          crc |-> Crc32Init, size |-> COMMAND_OBJECT_SIZE]
                    ELSE [obj_type |-> "Data", offset |-> 0,
                          crc |-> Crc32Init, size |-> size]],
     current |-> 0]

\* the engine as DfuTarget::new leaves it, no request made yet
TargetInit ==
    /\ crc_receipt_interval = NewTarget(FlashCapacity).crc_receipt_interval
    /\ receipt_count = NewTarget(FlashCapacity).receipt_count
    /\ objects = NewTarget(FlashCapacity).objects
    /\ current = NewTarget(FlashCapacity).current
    /\ fw_info = FirmwareInfo
    /\ hw_info = HardwareInfo
    /\ pc = "idle"
    /\ request = NoRequest
    /\ result = NoResult
    /\ flash_ops = <<>>
    /\ pre = NewTarget(FlashCapacity)
    /\ written = [i \in {0, 1} |-> <<>>]
    /\ run = NoRun

Init ==
    /\ TargetInit
    /\ codec = NoCodec
    /\ gatt = NoGatt
    /\ flash = NoFlash

---------------------------------------------------------------------------
(* Pieces of DfuTarget::process.                                           *)

\* Ok(DfuResponse { request, result: DfuResult::Success, body })
Success(req, body) ==
    [kind |-> "Ok", response |-> [request |-> req, result |-> "Success", body |-> body]]

\* what the ? operator returns when the flash operation fails
FlashError == [kind |-> "Err", error |-> "Flash"]

\* a flash operation as issued, and the log once the awaited one has ended
FlashOp(op, offset, len) == [op |-> op, offset |-> offset, len |-> len, status |-> "pending"]
FlashEnded(ops, status) == [i \in 1..Len(ops) |-> [ops[i] EXCEPT !.status = status]]

\* mutant of ObjIdx: the kind Invalid is given the Command slot
ObjIdxInvalidIsCommand(obj_type) ==
    IF obj_type = "Data" THEN OBJ_TYPE_DATA_IDX ELSE OBJ_TYPE_COMMAND_IDX

\* the slot a create or select request names; -1 stands for None
ObjIdx(obj_type) ==
    IF obj_type = "Command" THEN OBJ_TYPE_COMMAND_IDX
    ELSE IF obj_type = "Data" THEN OBJ_TYPE_DATA_IDX
    ELSE -1

\* Object { obj_type, size: obj_size, offset: 0, crc: Crc32::init() }
NewObject(obj_type, obj_size) ==
    [obj_type |-> obj_type, offset |-> 0, crc |-> Crc32Init, size |-> obj_size]

\* the object table after the create arm has stored the new object
CreateObjects(objs, obj_type, obj_size) ==
    IF ObjIdx(obj_type) = -1 THEN objs
    ELSE [objs EXCEPT ![ObjIdx(obj_type)] = NewObject(obj_type, obj_size)]

\* mutant of CreateCurrent: create forgets to make the new object active
CreateCurrentUnchanged(cur, obj_type) == cur

\* self.current after the create arm
CreateCurrent(cur, obj_type) ==
    IF ObjIdx(obj_type) = -1 THEN cur ELSE ObjIdx(obj_type)

\* mutant of AppendData: the payload is not folded into the checksum
AppendDataSkipsChecksum(obj, data) == [obj EXCEPT !.offset = @ + Len(data)]

\* mutant of AppendData: the offset runs one byte ahead of the payload
AppendDataOffByOne(obj, data) ==
    [obj EXCEPT !.crc = Crc32Add(@, data), !.offset = @ + Len(data) + 1]

\* obj.crc.add(data); obj.offset += data.len() as u32
AppendData(obj, data) ==
    [obj EXCEPT !.crc = Crc32Add(@, data), !.offset = @ + Len(data)]

\* DfuResponseBody::Crc of an object
CrcBody(obj) == [kind |-> "Crc", offset |-> obj.offset, crc |-> Crc32Finish(obj.crc)]

\* mutant of WriteReceiptCount: the counter is not zeroed when a receipt is due
WriteReceiptCountNotZeroed(interval, count) ==
    IF interval > 0 THEN (count + 1) % 65536 ELSE count

\* self.receipt_count after a write has been accepted
WriteReceiptCount(interval, count) ==
    IF interval > 0
    THEN IF (count + 1) % 65536 = interval THEN 0 ELSE (count + 1) % 65536
    ELSE count

\* body of the response to an accepted write, obj being the object after it
\* mutant of WriteBody: the write's response carries the running checksum
\* state instead of the finished checksum
WriteBodyRunningChecksum(interval, count, obj) ==
    IF interval > 0
    THEN IF (count + 1) % 65536 = interval THEN CrcBody(obj) ELSE NoBody
    ELSE [kind |-> "Crc", offset |-> obj.offset, crc |-> obj.crc]

\* mutant of WriteBody: the write's response carries the checksum alone
WriteBodyChecksumOnly(interval, count, obj) ==
    IF interval > 0 /\ (count + 1) % 65536 # interval THEN NoBody
    ELSE [kind |-> "Write", crc |-> Crc32Finish(obj.crc)]

WriteBody(interval, count, obj) ==
    IF interval > 0
    THEN IF (count + 1) % 65536 = interval THEN CrcBody(obj) ELSE NoBody
    ELSE CrcBody(obj)

\* mutant of AbortObjects: abort clears the Command object only
AbortObjectsCommandOnly(objs) ==
    [i \in {0, 1} |-> IF i = 0 THEN [objs[i] EXCEPT !.crc = Crc32Reset(@), !.offset = 0]
                                ELSE objs[i]]

\* the object table after the abort arm
AbortObjects(objs) ==
    [i \in {0, 1} |-> [objs[i] EXCEPT !.crc = Crc32Reset(@), !.offset = 0]]

\* the engine after an abort request
AbortEngine(e) ==
    [e EXCEPT !.objects = AbortObjects(@), !.receipt_count = 0]

\* body of the response to select{obj_type}
SelectBody(objs, obj_type) ==
    IF ObjIdx(obj_type) = -1 THEN NoBody
    ELSE [kind |-> "Select",
          offset |-> objs[ObjIdx(obj_type)].offset,
          crc |-> Crc32Finish(objs[ObjIdx(obj_type)].crc),
          max_size |-> objs[ObjIdx(obj_type)].size]

\* the bookkeeping of the run of writes after one more accepted write
RunAfterWrite(r, interval, body) ==
    IF ~r.held THEN r
    ELSE IF r.k = 0
    THEN [r EXCEPT !.k = 1, !.bodies = IF body = NoBody THEN 0 ELSE 1, !.n = interval]
    ELSE IF r.n = interval
    THEN [r EXCEPT !.k = @ + 1, !.bodies = IF body = NoBody THEN @ ELSE @ + 1]
    ELSE [NoRun EXCEPT !.held = FALSE]

---------------------------------------------------------------------------
(* process(): one action per request kind, and one per way an awaited      *)
(* flash operation ends.                                                   *)

\* a request that touches neither the engine nor the flash
\* mutant of Answer: answering a request zeroes the receipt counter
AnswerZeroesReceiptCount(req, body) ==
    /\ pc = "idle"
    /\ pre' = Engine
    /\ request' = req
    /\ result' = Success(req, body)
    /\ flash_ops' = <<>>
    /\ receipt_count' = 0
    /\ UNCHANGED <<crc_receipt_interval, objects, current, fw_info, hw_info, pc, history>>

Answer(req, body) ==
    /\ pc = "idle"
    /\ pre' = Engine
    /\ request' = req
    /\ result' = Success(req, body)
    /\ flash_ops' = <<>>
    /\ UNCHANGED <<target, pc, history>>

ProtocolVersion ==
    Answer([op |-> "ProtocolVersion"],
           [kind |-> "ProtocolVersion", version |-> DFU_PROTOCOL_VERSION])

\* create up to the await of flash.erase (Data), or to its end (other kinds)
Create(obj_type, obj_size) ==
    /\ pc = "idle"
    /\ pre' = Engine
    /\ request' = [op |-> "Create", obj_type |-> obj_type, obj_size |-> obj_size]
    /\ objects' = CreateObjects(objects, obj_type, obj_size)
    /\ current' = CreateCurrent(current, obj_type)
    /\ written' = IF ObjIdx(obj_type) = -1 THEN written
                  ELSE [written EXCEPT ![ObjIdx(obj_type)] = <<>>]
    /\ IF obj_type = "Data"
       THEN /\ pc' = "erase"
            /\ flash_ops' = <<FlashOp("erase", 0, obj_size)>>
            /\ result' = NoResult
            /\ UNCHANGED <<receipt_count, run>>
       ELSE /\ pc' = "idle"
            /\ flash_ops' = <<>>
            /\ receipt_count' = 0
            /\ result' = Success(request', NoBody)
            /\ run' = NoRun
    /\ UNCHANGED <<crc_receipt_interval, fw_info, hw_info>>

\* flash.erase(0, obj_size).await returned Ok
EraseOk ==
    /\ pc = "erase"
    /\ pc' = "idle"
    /\ receipt_count' = 0
    /\ result' = Success(request, NoBody)
    /\ run' = NoRun
    /\ flash_ops' = FlashEnded(flash_ops, "ok")
    /\ UNCHANGED <<crc_receipt_interval, objects, current, fw_info, hw_info,
                   request, pre, written>>

\* flash.erase(0, obj_size).await returned Err: the ? leaves process()
EraseErr ==
    /\ pc = "erase"
    /\ pc' = "idle"
    /\ result' = FlashError
    /\ flash_ops' = FlashEnded(flash_ops, "failed")
    /\ run' = [run EXCEPT !.skip = run.k, !.skip_bodies = run.bodies]
    /\ UNCHANGED <<target, request, pre, written>>

SetReceiptNotification(interval) ==
    /\ pc = "idle"
    /\ pre' = Engine
    /\ request' = [op |-> "SetReceiptNotification", target |-> interval]
    /\ crc_receipt_interval' = interval
    /\ result' = Success(request', NoBody)
    /\ flash_ops' = <<>>
    /\ UNCHANGED <<receipt_count, objects, current, fw_info, hw_info, pc, history>>

Crc == Answer([op |-> "Crc"], CrcBody(objects[current]))

Execute == Answer([op |-> "Execute"], NoBody)

\* mutant of Select: select makes the named object the active one
SelectActivates(obj_type) ==
    /\ pc = "idle"
    /\ pre' = Engine
    /\ request' = [op |-> "Select", obj_type |-> obj_type]
    /\ result' = Success(request', SelectBody(objects, obj_type))
    /\ current' = IF ObjIdx(obj_type) = -1 THEN current ELSE ObjIdx(obj_type)
    /\ flash_ops' = <<>>
    /\ UNCHANGED <<crc_receipt_interval, receipt_count, objects, fw_info, hw_info,
                   pc, history>>

\* mutant of Select: a kind that names no object is answered with an error code
SelectRejectsUnknownKind(obj_type) ==
    /\ pc = "idle"
    /\ pre' = Engine
    /\ request' = [op |-> "Select", obj_type |-> obj_type]
    /\ result' = IF ObjIdx(obj_type) = -1
                 THEN [kind |-> "Ok",
                       response |-> [request |-> request', result |-> "InvalidObject",
                                     body |-> NoBody]]
                 ELSE Success(request', SelectBody(objects, obj_type))
    /\ flash_ops' = <<>>
    /\ UNCHANGED <<target, pc, history>>

Select(obj_type) ==
    Answer([op |-> "Select", obj_type |-> obj_type], SelectBody(objects, obj_type))

MtuGet == Answer([op |-> "MtuGet"], [kind |-> "Mtu", mtu |-> DFU_MTU])

\* what a write does once the flash, if it was used, has taken the payload
WriteCommit(req, data) ==
    /\ objects' = [objects EXCEPT ![current] = AppendData(@, data)]
    /\ receipt_count' = WriteReceiptCount(crc_receipt_interval, receipt_count)
    /\ result' = Success(req,
                         WriteBody(crc_receipt_interval, receipt_count, objects'[current]))
    /\ written' = [written EXCEPT ![current] = @ \o data]
    /\ run' = RunAfterWrite(run, crc_receipt_interval, result'.response.body)
    /\ pc' = "idle"
    /\ UNCHANGED <<crc_receipt_interval, current, fw_info, hw_info>>

\* mutant of WriteFlashOffset: the flash write lands after the payload's end
WriteFlashOffsetAdvanced(obj, data) == obj.offset + Len(data)

\* the offset a write to the Data object hands to flash.write
WriteFlashOffset(obj, data) == obj.offset

\* mutant of Write: the object is advanced before the flash write is awaited
WriteUpdatesBeforeFlash(data) ==
    /\ pc = "idle"
    /\ pre' = Engine
    /\ Len(written[0]) + Len(written[1]) + Len(data) <= MaxOffset
    /\ run.k < MaxWrites
    /\ receipt_count < MaxCount
    /\ request' = [op |-> "Write", data |-> data]
    /\ IF objects[current].obj_type = "Data"
       THEN /\ pc' = "write"
            /\ flash_ops' = <<FlashOp("write", objects[current].offset, Len(data))>>
            /\ result' = NoResult
            /\ objects' = [objects EXCEPT ![current] = AppendData(@, data)]
            /\ UNCHANGED <<crc_receipt_interval, receipt_count, current, fw_info,
                           hw_info, history>>
       ELSE /\ flash_ops' = <<>>
            /\ WriteCommit(request', data)

\* mutant of Write: the payload goes to the flash whichever object is active
WriteAlwaysFlashes(data) ==
    /\ pc = "idle"
    /\ pre' = Engine
    /\ Len(written[0]) + Len(written[1]) + Len(data) <= MaxOffset
    /\ run.k < MaxWrites
    /\ receipt_count < MaxCount
    /\ request' = [op |-> "Write", data |-> data]
    /\ pc' = "write"
    /\ flash_ops' = <<FlashOp("write", WriteFlashOffset(objects[current], data),
                              Len(data))>>
    /\ result' = NoResult
    /\ UNCHANGED <<target, history>>

\* the Write arm up to the await of flash.write (Data active), or to its end
WriteArm(data) ==
    /\ pc = "idle"
    /\ pre' = Engine
    /\ request' = [op |-> "Write", data |-> data]
    /\ IF objects[current].obj_type = "Data"
       THEN /\ pc' = "write"
            /\ flash_ops' = <<FlashOp("write", WriteFlashOffset(objects[current], data),
                                       Len(data))>>
            /\ result' = NoResult
            /\ UNCHANGED <<target, history>>
       ELSE /\ flash_ops' = <<>>
            /\ WriteCommit(request', data)

\* write, within the bounds of the exploration
Write(data) ==
    /\ Len(written[0]) + Len(written[1]) + Len(data) <= MaxOffset
    /\ run.k < MaxWrites
    /\ receipt_count < MaxCount
    /\ WriteArm(data)

\* flash.write(obj.offset, data).await returned Ok
WriteOk ==
    /\ pc = "write"
    /\ WriteCommit(request, request.data)
    /\ flash_ops' = FlashEnded(flash_ops, "ok")
    /\ UNCHANGED <<request, pre>>

\* flash.write(obj.offset, data).await returned Err: the ? leaves process()
WriteErr ==
    /\ pc = "write"
    /\ pc' = "idle"
    /\ result' = FlashError
    /\ flash_ops' = FlashEnded(flash_ops, "failed")
    /\ UNCHANGED <<target, request, pre, history>>

Ping(id) == Answer([op |-> "Ping", id |-> id], [kind |-> "Ping", id |-> id])

HwVersion ==
    Answer([op |-> "HwVersion"],
           [kind |-> "HwVersion", part |-> hw_info.part, variant |-> hw_info.variant,
            rom_size |-> hw_info.rom_size, ram_size |-> hw_info.ram_size,
            rom_page_size |-> hw_info.rom_page_size])

FwVersion(image_id) ==
    Answer([op |-> "FwVersion", image_id |-> image_id],
           [kind |-> "FwVersion", ftype |-> fw_info.ftype, version |-> fw_info.version,
            addr |-> fw_info.addr, len |-> fw_info.len])

Abort ==
    /\ pc = "idle"
    /\ pre' = Engine
    /\ request' = [op |-> "Abort"]
    /\ objects' = AbortEngine(Engine).objects
    /\ receipt_count' = AbortEngine(Engine).receipt_count
    /\ crc_receipt_interval' = AbortEngine(Engine).crc_receipt_interval
    /\ current' = AbortEngine(Engine).current
    /\ result' = Success(request', NoBody)
    /\ flash_ops' = <<>>
    /\ written' = [i \in {0, 1} |-> <<>>]
    /\ run' = NoRun
    /\ UNCHANGED <<fw_info, hw_info, pc>>

Next ==
    \/ ProtocolVersion /\ UNCHANGED transport
    \/ \E t \in ObjectTypes, size \in Sizes : Create(t, size) /\ UNCHANGED transport
    \/ EraseOk /\ UNCHANGED transport
    \/ EraseErr /\ UNCHANGED transport
    \/ \E interval \in Intervals : SetReceiptNotification(interval) /\ UNCHANGED transport
    \/ Crc /\ UNCHANGED transport
    \/ Execute /\ UNCHANGED transport
    \/ \E t \in ObjectTypes : Select(t) /\ UNCHANGED transport
    \/ MtuGet /\ UNCHANGED transport
    \/ \E data \in Payloads : Write(data) /\ UNCHANGED transport
    \/ WriteOk /\ UNCHANGED transport
    \/ WriteErr /\ UNCHANGED transport
    \/ \E id \in PingIds : Ping(id) /\ UNCHANGED transport
    \/ HwVersion /\ UNCHANGED transport
    \/ \E image_id \in ImageIds : FwVersion(image_id) /\ UNCHANGED transport
    \/ Abort /\ UNCHANGED transport

Spec == Init /\ [][Next]_vars

---------------------------------------------------------------------------
(* The wire codec: responses are encoded into a caller-supplied buffer.    *)
(* A u32 is held as <<high 16 bits, low 16 bits>>, as the checksum is.      *)

\* `value as u32` of a usize below 2^31
U32(value) == <<value \div 65536, value % 65536>>

\* u16::to_le_bytes
LeBytes16(value) == <<value % 256, value \div 256>>

\* u32::to_le_bytes
LeBytes32(value) == LeBytes16(value[2]) \o LeBytes16(value[1])

\* WriteBuf::new over a buffer of len bytes; err is the Err(()) that every
\* later call passes on through its ?
WriteBuf_new(len) == [len |-> len, pos |-> 0, bytes |-> <<>>, err |-> FALSE]

\* the bounds check and store shared by encode_u8, encode_u16 and encode_u32
WriteBuf_put(buf, d) ==
    IF buf.err THEN buf
    ELSE IF buf.len - buf.pos >= Len(d)
         THEN [buf EXCEPT !.bytes = @ \o d, !.pos = @ + Len(d)]
         ELSE [buf EXCEPT !.err = TRUE]

encode_u8(buf, value) == WriteBuf_put(buf, <<value>>)
encode_u16(buf, value) == WriteBuf_put(buf, LeBytes16(value))
encode_u32(buf, value) == WriteBuf_put(buf, LeBytes32(value))

\* WriteBuf::slice: the rest of the buffer, handed to a nested encoder
WriteBuf_slice(buf) == WriteBuf_new(buf.len - buf.pos)

\* mutant of WriteBuf_advance: the bounds check wants a spare byte
WriteBuf_advanceStrict(buf, sub) ==
    IF buf.err \/ sub.err THEN [buf EXCEPT !.err = TRUE]
    ELSE IF buf.len - buf.pos > sub.pos
         THEN [buf EXCEPT !.bytes = @ \o sub.bytes, !.pos = @ + sub.pos]
         ELSE [buf EXCEPT !.err = TRUE]

\* `let len = x.encode(buf.slice())?; buf.advance(len)?`: sub is the nested
\* encoder's buffer, whose bytes lie in the slice it was given
WriteBuf_advance(buf, sub) ==
    IF buf.err \/ sub.err THEN [buf EXCEPT !.err = TRUE]
    ELSE IF buf.len - buf.pos >= sub.pos
         THEN [buf EXCEPT !.bytes = @ \o sub.bytes, !.pos = @ + sub.pos]
         ELSE [buf EXCEPT !.err = TRUE]

\* mutant of DfuRequest_code: a select request has code 0x05
DfuRequest_codeSelectIsFive(req) ==
    CASE req.op = "ProtocolVersion" -> 0
      [] req.op = "Create" -> 1
      [] req.op = "SetReceiptNotification" -> 2
      [] req.op = "Crc" -> 3
      [] req.op = "Execute" -> 4
      [] req.op = "Select" -> 5
      [] req.op = "MtuGet" -> 7
      [] req.op = "Write" -> 8
      [] req.op = "Ping" -> 9
      [] req.op = "HwVersion" -> 10
      [] req.op = "FwVersion" -> 11
      [] req.op = "Abort" -> 12

\* DfuRequest::code
DfuRequest_code(req) ==
    CASE req.op = "ProtocolVersion" -> 0
      [] req.op = "Create" -> 1
      [] req.op = "SetReceiptNotification" -> 2
      [] req.op = "Crc" -> 3
      [] req.op = "Execute" -> 4
      [] req.op = "Select" -> 6
      [] req.op = "MtuGet" -> 7
      [] req.op = "Write" -> 8
      [] req.op = "Ping" -> 9
      [] req.op = "HwVersion" -> 10
      [] req.op = "FwVersion" -> 11
      [] req.op = "Abort" -> 12

\* the code byte of a DfuResult
DfuResult_code(res) ==
    CASE res = "Invalid" -> 0
      [] res = "Success" -> 1
      [] res = "OpNotSupported" -> 2
      [] res = "InvalidParameter" -> 3
      [] res = "InsufficientResources" -> 4
      [] res = "InvalidObject" -> 5
      [] res = "UnsupportedType" -> 7
      [] res = "OpNotPermitted" -> 8
      [] res = "OpFailed" -> 10
      [] res = "ExtError" -> 11

\* mutant of DfuResult_encode: the sub-code of ExtError is left out
DfuResult_encodeNoSubCode(response, len) ==
    encode_u8(WriteBuf_new(len), DfuResult_code(response.result))

\* DfuResult::encode; a response whose result is ExtError(code) carries the
\* code in its field ext
DfuResult_encode(response, len) ==
    LET b1 == encode_u8(WriteBuf_new(len), DfuResult_code(response.result))
    IN  IF response.result = "ExtError" THEN encode_u8(b1, response.ext) ELSE b1

\* Into<u8> for FirmwareType
FirmwareType_into(ftype) ==
    CASE ftype = "Softdevice" -> 0
      [] ftype = "Application" -> 1
      [] ftype = "Bootloader" -> 2
      [] ftype = "Unknown" -> 255

\* DfuResponseBody::encode
DfuResponseBody_encode(body, len) ==
    LET buf == WriteBuf_new(len)
    IN  CASE body.kind = "ProtocolVersion" -> encode_u8(buf, body.version)
          [] body.kind = "Crc" ->
                 encode_u32(encode_u32(buf, U32(body.offset)), body.crc)
          [] body.kind = "Select" ->
                 encode_u32(encode_u32(encode_u32(buf, U32(body.max_size)),
                                       U32(body.offset)), body.crc)
          [] body.kind = "Mtu" -> encode_u16(buf, body.mtu)
          [] body.kind = "Write" -> encode_u32(buf, body.crc)
          [] body.kind = "Ping" -> encode_u8(buf, body.id)
          [] body.kind = "HwVersion" ->
                 encode_u32(encode_u32(encode_u32(encode_u32(encode_u32(buf,
                     U32(body.part)), U32(body.variant)), U32(body.rom_size)),
                     U32(body.ram_size)), U32(body.rom_page_size))
          [] body.kind = "FwVersion" ->
                 encode_u32(encode_u32(encode_u32(
                     encode_u8(buf, FirmwareType_into(body.ftype)),
                     U32(body.version)), U32(body.addr)), U32(body.len))

DFU_RESPONSE_OP_CODE == 96

\* DfuResponse::encode into a buffer of len bytes: err for Err(()), else pos
\* is the returned length and bytes what was written
DfuResponse_encode(response, len) ==
    LET b1 == encode_u8(WriteBuf_new(len), DFU_RESPONSE_OP_CODE)
        b2 == encode_u8(b1, DfuRequest_code(response.request))
        b3 == WriteBuf_advance(b2, DfuResult_encode(response, WriteBuf_slice(b2).len))
    IN  IF response.body # NoBody
        THEN WriteBuf_advance(b3, DfuResponseBody_encode(response.body,
                                                         WriteBuf_slice(b3).len))
        ELSE b3

---------------------------------------------------------------------------
(* Requests are decoded from the bytes of a characteristic write.          *)

\* ReadBuf::new
ReadBuf_new(data) == [data |-> data, pos |-> 0]

\* Err(()) of a decode step
ReadErr == [ok |-> FALSE]

\* mutant of decode_u8: a missing byte reads as 0
decode_u8Lenient(buf) ==
    IF Len(buf.data) - buf.pos >= 1
    THEN [ok |-> TRUE, value |-> buf.data[buf.pos + 1],
          buf |-> [buf EXCEPT !.pos = @ + 1]]
    ELSE [ok |-> TRUE, value |-> 0, buf |-> buf]

\* ReadBuf::decode_u8: the byte read and the buffer with pos moved on
decode_u8(buf) ==
    IF Len(buf.data) - buf.pos >= 1
    THEN [ok |-> TRUE, value |-> buf.data[buf.pos + 1],
          buf |-> [buf EXCEPT !.pos = @ + 1]]
    ELSE ReadErr

\* ReadBuf::decode_u16 (u16::from_le_bytes)
decode_u16(buf) ==
    IF Len(buf.data) - buf.pos >= 2
    THEN [ok |-> TRUE,
          value |-> buf.data[buf.pos + 1] + 256 * buf.data[buf.pos + 2],
          buf |-> [buf EXCEPT !.pos = @ + 2]]
    ELSE ReadErr

\* ReadBuf::decode_u32 (u32::from_le_bytes), for values below 2^31
decode_u32(buf) ==
    IF Len(buf.data) - buf.pos >= 4
    THEN [ok |-> TRUE,
          value |-> buf.data[buf.pos + 1] + 256 * buf.data[buf.pos + 2]
                    + 65536 * buf.data[buf.pos + 3]
                    + 16777216 * buf.data[buf.pos + 4],
          buf |-> [buf EXCEPT !.pos = @ + 4]]
    ELSE ReadErr

\* mutant of ReadBuf_slice: the payload is taken without moving pos
ReadBuf_sliceKeepsPos(buf) ==
    [value |-> SubSeq(buf.data, buf.pos + 1, Len(buf.data)), buf |-> buf]

\* ReadBuf::slice: all bytes from pos on, and pos moved to the end
ReadBuf_slice(buf) ==
    [value |-> SubSeq(buf.data, buf.pos + 1, Len(buf.data)),
     buf |-> [buf EXCEPT !.pos = Len(buf.data)]]

\* ReadBuf::release
ReadBuf_release(buf) == SubSeq(buf.data, buf.pos + 1, Len(buf.data))

\* mutant of ObjectType_try_from: a byte that names no kind becomes Invalid
ObjectType_try_fromLenient(t) ==
    CASE t = 0 -> [ok |-> TRUE, value |-> "Invalid"]
      [] t = 1 -> [ok |-> TRUE, value |-> "Command"]
      [] t = 2 -> [ok |-> TRUE, value |-> "Data"]
      [] OTHER -> [ok |-> TRUE, value |-> "Invalid"]

\* TryFrom<u8> for ObjectType
ObjectType_try_from(t) ==
    CASE t = 0 -> [ok |-> TRUE, value |-> "Invalid"]
      [] t = 1 -> [ok |-> TRUE, value |-> "Command"]
      [] t = 2 -> [ok |-> TRUE, value |-> "Data"]
      [] OTHER -> ReadErr

\* Ok((req, data.release()))
Decoded(req, buf) == [ok |-> TRUE, request |-> req, rest |-> ReadBuf_release(buf)]

\* DfuRequest::decode of the operation whose code has been read
DfuRequest_decode_op(op, buf) ==
    CASE op = 0 -> Decoded([op |-> "ProtocolVersion"], buf)
      [] op = 1 ->
             LET t == decode_u8(buf)
             IN  IF ~t.ok THEN ReadErr
                 ELSE LET obj_type == ObjectType_try_from(t.value)
                          obj_size == decode_u32(t.buf)
                      IN  IF ~obj_type.ok \/ ~obj_size.ok THEN ReadErr
                          ELSE Decoded([op |-> "Create", obj_type |-> obj_type.value,
                                        obj_size |-> obj_size.value], obj_size.buf)
      [] op = 2 ->
             LET interval == decode_u16(buf)
             IN  IF ~interval.ok THEN ReadErr
                 ELSE Decoded([op |-> "SetReceiptNotification",
                               target |-> interval.value], interval.buf)
      [] op = 3 -> Decoded([op |-> "Crc"], buf)
      [] op = 4 -> Decoded([op |-> "Execute"], buf)
      [] op = 6 ->
             LET t == decode_u8(buf)
             IN  IF ~t.ok THEN ReadErr
                 ELSE LET obj_type == ObjectType_try_from(t.value)
                      IN  IF ~obj_type.ok THEN ReadErr
                          ELSE Decoded([op |-> "Select", obj_type |-> obj_type.value],
                                       t.buf)
      [] op = 7 -> Decoded([op |-> "MtuGet"], buf)
      [] op = 8 ->
             LET data == ReadBuf_slice(buf)
             IN  Decoded([op |-> "Write", data |-> data.value], data.buf)
      [] op = 9 ->
             LET id == decode_u8(buf)
             IN  IF ~id.ok THEN ReadErr
                 ELSE Decoded([op |-> "Ping", id |-> id.value], id.buf)
      [] op = 10 -> Decoded([op |-> "HwVersion"], buf)
      [] op = 11 ->
             LET image_id == decode_u8(buf)
             IN  IF ~image_id.ok THEN ReadErr
                 ELSE Decoded([op |-> "FwVersion", image_id |-> image_id.value],
                              image_id.buf)
      [] op = 12 -> Decoded([op |-> "Abort"], buf)
      [] OTHER -> ReadErr

\* DfuRequest::decode
DfuRequest_decode(data) ==
    LET op == decode_u8(ReadBuf_new(data))
    IN  IF ~op.ok THEN ReadErr ELSE DfuRequest_decode_op(op.value, op.buf)

---------------------------------------------------------------------------
(* The codec on its own: decode applied to byte buffers, encode applied to *)
(* responses and buffer lengths, drawn from bounded sets.                  *)

MaxBufLen == 6
MaxResponseBuf == 24

\* first bytes: every operation code, the gap 0x05 and two codes past 0x0C
OpBytes == 0..13 \cup {DFU_RESPONSE_OP_CODE}

\* later bytes: object kinds 0 and 2 and the byte 3 that names no kind
FieldBytes == {0, 2, 3}

RECURSIVE ByteSeqs(_, _)
ByteSeqs(bytes, n) ==
    IF n = 0 THEN {<<>>}
    ELSE ByteSeqs(bytes, n - 1)
             \cup {<<b>> \o t : b \in bytes, t \in {q \in ByteSeqs(bytes, n - 1) :
                                                     Len(q) = n - 1}}

Buffers ==
    {<<>>} \cup {<<op>> \o t : op \in OpBytes, t \in ByteSeqs(FieldBytes, MaxBufLen - 1)}

BufferLens == 0..MaxResponseBuf

\* one request of every operation
Requests ==
    {[op |-> "ProtocolVersion"],
     [op |-> "Create", obj_type |-> "Data", obj_size |-> 258],
     [op |-> "SetReceiptNotification", target |-> 2],
     [op |-> "Crc"], [op |-> "Execute"],
     [op |-> "Select", obj_type |-> "Data"],
     [op |-> "MtuGet"],
     [op |-> "Write", data |-> <<170>>],
     [op |-> "Ping", id |-> 1],
     [op |-> "HwVersion"],
     [op |-> "FwVersion", image_id |-> 0],
     [op |-> "Abort"]}

PlainResults ==
    {"Invalid", "Success", "OpNotSupported", "InvalidParameter",
     "InsufficientResources", "InvalidObject", "UnsupportedType", "OpNotPermitted",
     "OpFailed"}

ExtCodes == {7}

\* one body of every variant, with fields whose bytes differ
Bodies ==
    {NoBody,
     [kind |-> "ProtocolVersion", version |-> DFU_PROTOCOL_VERSION],
     [kind |-> "Crc", offset |-> 258, crc |-> <<4660, 22136>>],
     [kind |-> "Select", offset |-> 258, crc |-> <<4660, 22136>>,
      max_size |-> COMMAND_OBJECT_SIZE],
     [kind |-> "Mtu", mtu |-> 258],
     [kind |-> "Write", crc |-> <<4660, 22136>>],
     [kind |-> "Ping", id |-> 1],
     [kind |-> "HwVersion", part |-> 337984, variant |-> 6, rom_size |-> 1024,
      ram_size |-> 256, rom_page_size |-> 4096],
     [kind |-> "FwVersion", ftype |-> "Unknown", version |-> 258, addr |-> 65536,
      len |-> 3]}

Responses ==
    {[request |-> req, result |-> res, body |-> body] :
         req \in Requests, res \in PlainResults, body \in Bodies}
    \cup {[request |-> req, result |-> "ExtError", ext |-> code, body |-> body] :
              req \in Requests, code \in ExtCodes, body \in Bodies}

\* a call about to be made: decode of a buffer, or encode of a response into
\* a buffer of len bytes
CodecCalls ==
    {[call |-> "decode", data |-> data, done |-> FALSE] : data \in Buffers}
    \cup {[call |-> "encode", response |-> response, len |-> len, done |-> FALSE] :
              response \in Responses, len \in BufferLens}

\* DfuRequest::decode(codec.data) runs
Decode ==
    /\ codec.call = "decode"
    /\ ~codec.done
    /\ codec' = [call |-> "decode", data |-> codec.data, done |-> TRUE,
                 decoded |-> DfuRequest_decode(codec.data)]
    /\ UNCHANGED <<process, gatt, flash>>

\* codec.response.encode(buf) runs with a buffer of codec.len bytes
Encode ==
    /\ codec.call = "encode"
    /\ ~codec.done
    /\ codec' = [call |-> "encode", response |-> codec.response, len |-> codec.len,
                 done |-> TRUE,
                 encoded |-> DfuResponse_encode(codec.response, codec.len)]
    /\ UNCHANGED <<process, gatt, flash>>

CodecInit ==
    /\ TargetInit
    /\ codec \in CodecCalls
    /\ gatt = NoGatt
    /\ flash = NoFlash

CodecNext ==
    \/ Decode
    \/ Encode

SpecCodec == CodecInit /\ [][CodecNext]_vars

---------------------------------------------------------------------------
(* The DFU service: connection tasks take the mutex around the engine and  *)
(* hand the writes of their connection to it.                              *)

\* control characteristic writes: a code that names no operation,
\* create{Data, 1}, crc, abort
ControlWrites == {<<5>>, <<1, 2, 1, 0, 0, 0>>, <<3>>, <<12>>}

\* packet characteristic writes
PacketWrites == {<<170>>}

Notifications == BOOLEAN

\* advertiser_task: a connection is established and a task spawned for it
Spawn(t) ==
    /\ ~gatt.panicked
    /\ gatt.task[t] = "unspawned"
    /\ gatt' = [gatt EXCEPT !.task[t] = "lock",
                            !.notify_control[t] = FALSE,
                            !.notify_packet[t] = FALSE]
    /\ UNCHANGED <<process, codec, flash>>

\* mutant of Lock: the mutex is taken although another task holds it
LockUnchecked(t) ==
    /\ ~gatt.panicked
    /\ gatt.task[t] = "lock"
    /\ gatt' = [gatt EXCEPT !.lock = t, !.task[t] = "run"]
    /\ UNCHANGED <<process, codec, flash>>

\* gatt_server_task: target.lock().await returns, gatt_server::run starts
Lock(t) ==
    /\ ~gatt.panicked
    /\ gatt.task[t] = "lock"
    /\ gatt.lock = 0
    /\ gatt' = [gatt EXCEPT !.lock = t, !.task[t] = "run"]
    /\ UNCHANGED <<process, codec, flash>>

\* target.process(request) is entered with a decoded request
Dispatch(req) ==
    CASE req.op = "ProtocolVersion" -> ProtocolVersion
      [] req.op = "Create" -> Create(req.obj_type, req.obj_size)
      [] req.op = "SetReceiptNotification" -> SetReceiptNotification(req.target)
      [] req.op = "Crc" -> Crc
      [] req.op = "Execute" -> Execute
      [] req.op = "Select" -> Select(req.obj_type)
      [] req.op = "MtuGet" -> MtuGet
      [] req.op = "Write" -> Write(req.data)
      [] req.op = "Ping" -> Ping(req.id)
      [] req.op = "HwVersion" -> HwVersion
      [] req.op = "FwVersion" -> FwVersion(req.image_id)
      [] req.op = "Abort" -> Abort

\* NrfDfuService::handle, ControlWrite(data): the request is decoded and
\* given to the engine, or the handler panics
ControlWrite(t, data) ==
    /\ ~gatt.panicked
    /\ gatt.task[t] = "run"
    /\ IF DfuRequest_decode(data).ok
       THEN /\ Dispatch(DfuRequest_decode(data).request)
            /\ gatt' = [gatt EXCEPT !.task[t] = "process",
                                    !.characteristic = "control",
                                    !.control = data,
                                    !.sent = NoNotification]
       ELSE /\ gatt' = [gatt EXCEPT !.characteristic = "control",
                                    !.control = data,
                                    !.panicked = TRUE]
            /\ UNCHANGED process
    /\ UNCHANGED <<codec, flash>>

\* NrfDfuService::handle, PacketWrite(data)
PacketWrite(t, data) ==
    /\ ~gatt.panicked
    /\ gatt.task[t] = "run"
    /\ Dispatch([op |-> "Write", data |-> data])
    /\ gatt' = [gatt EXCEPT !.task[t] = "process",
                            !.characteristic = "packet",
                            !.sent = NoNotification]
    /\ UNCHANGED <<codec, flash>>

\* NrfDfuService::handle, ControlCccdWrite { notifications }
ControlCccdWrite(t, notifications) ==
    /\ ~gatt.panicked
    /\ gatt.task[t] = "run"
    /\ gatt' = [gatt EXCEPT !.notify_control[t] = notifications]
    /\ UNCHANGED <<process, codec, flash>>

\* NrfDfuService::handle, PacketCccdWrite { notifications }
PacketCccdWrite(t, notifications) ==
    /\ ~gatt.panicked
    /\ gatt.task[t] = "run"
    /\ gatt' = [gatt EXCEPT !.notify_packet[t] = notifications]
    /\ UNCHANGED <<process, codec, flash>>

\* the notify closure of the characteristic the request came on
Notify(t, response) ==
    IF (gatt.characteristic = "control" /\ gatt.notify_control[t])
           \/ (gatt.characteristic = "packet" /\ gatt.notify_packet[t])
    THEN [characteristic |-> gatt.characteristic, value |-> response]
    ELSE NoNotification

\* NrfDfuService::process once target.process(request) has returned: the
\* response is encoded and notified; Vec::from_slice(response).unwrap()
\* panics on a response longer than the characteristic
Respond(t) ==
    /\ ~gatt.panicked
    /\ gatt.task[t] = "process"
    /\ pc = "idle"
    /\ LET encoded == DfuResponse_encode(result.response, RESPONSE_BUF_LEN)
       IN  IF result.kind = "Ok" /\ ~encoded.err
           THEN IF Notify(t, encoded.bytes) # NoNotification /\ encoded.pos > ATT_MTU
                THEN gatt' = [gatt EXCEPT !.panicked = TRUE]
                ELSE gatt' = [gatt EXCEPT !.task[t] = "run",
                                          !.sent = Notify(t, encoded.bytes)]
           ELSE gatt' = [gatt EXCEPT !.task[t] = "run"]
    /\ UNCHANGED <<process, codec, flash>>

\* gatt_server::run returns (the connection is gone): the guard is dropped
\* at the end of the loop body and the task goes back to target.lock()
Disconnect(t) ==
    /\ ~gatt.panicked
    /\ gatt.task[t] = "run"
    /\ gatt' = [gatt EXCEPT !.task[t] = "lock", !.lock = 0]
    /\ UNCHANGED <<process, codec, flash>>

ServiceNext ==
    \/ \E t \in Tasks : Spawn(t)
    \/ \E t \in Tasks : Lock(t)
    \/ \E t \in Tasks, data \in ControlWrites : ControlWrite(t, data)
    \/ \E t \in Tasks, data \in PacketWrites : PacketWrite(t, data)
    \/ \E t \in Tasks, notifications \in Notifications : ControlCccdWrite(t, notifications)
    \/ \E t \in Tasks, notifications \in Notifications : PacketCccdWrite(t, notifications)
    \/ \E t \in Tasks : Respond(t)
    \/ \E t \in Tasks : Disconnect(t)
    \/ EraseOk /\ ~gatt.panicked /\ UNCHANGED transport
    \/ EraseErr /\ ~gatt.panicked /\ UNCHANGED transport
    \/ WriteOk /\ ~gatt.panicked /\ UNCHANGED transport
    \/ WriteErr /\ ~gatt.panicked /\ UNCHANGED transport

SpecService == Init /\ [][ServiceNext]_vars

----------------------------------------------------------------------------
(* One connection whose control point receives create and select requests  *)
(* of every kind byte, between writes counted by the receipt counter.      *)

\* kind bytes: Invalid, Command, Data, and two that name no kind
KindBytes == {0, 1, 2, 3, 255}

\* create{kind, 1}, select{kind}, set-receipt-notification{2}
KindWrites ==
    {<<1, kind, 1, 0, 0, 0>> : kind \in KindBytes}
        \cup {<<6, kind>> : kind \in KindBytes}
        \cup {<<2, 2, 0>>}

ControlNext ==
    \/ Spawn(1)
    \/ Lock(1)
    \/ \E data \in KindWrites : ControlWrite(1, data)
    \/ \E data \in PacketWrites : PacketWrite(1, data)
    \/ Respond(1)
    \/ EraseOk /\ ~gatt.panicked /\ UNCHANGED transport
    \/ EraseErr /\ ~gatt.panicked /\ UNCHANGED transport
    \/ WriteOk /\ ~gatt.panicked /\ UNCHANGED transport
    \/ WriteErr /\ ~gatt.panicked /\ UNCHANGED transport

SpecControl == Init /\ [][ControlNext]_vars

---------------------------------------------------------------------------
(* Properties.                                                             *)

Slots == {OBJ_TYPE_COMMAND_IDX, OBJ_TYPE_DATA_IDX}

\* process() has returned
Returned == pc = "idle" /\ request # NoRequest
ReturnedOk == Returned /\ result.kind = "Ok"

\* the awaited flash operation of the last call failed
FlashFailed == \E i \in 1..Len(flash_ops) : flash_ops[i].status = "failed"

\* C1 as stated: in every reachable state each of the two objects
\* satisfies 0 <= offset <= size.
C1_OffsetWithinSize ==
    \A i \in Slots : 0 <= objects[i].offset /\ objects[i].offset <= objects[i].size

\* C1 amended: each object's offset is never negative, and it is at most the
\* declared size as long as the payload bytes accepted into the object since
\* its last reset do not exceed that size (the engine does not bound it).
C1_OffsetWithinSizeWhenClientFits ==
    \A i \in Slots :
        /\ 0 <= objects[i].offset
        /\ Len(written[i]) <= objects[i].size => objects[i].offset <= objects[i].size

\* a write has filled an object exactly to its declared size
C1_Witness ==
    /\ ReturnedOk
    /\ request.op = "Write"
    /\ Len(request.data) > 0
    /\ objects[current].offset = objects[current].size
    /\ Len(written[current]) = objects[current].size

\* C2: when the flash write of a write request fails, process() returns an
\* error and the engine is exactly as the request found it (offset, checksum
\* and receipt counter not advanced).
C2_FailedWriteLeavesEngine ==
    (request.op = "Write" /\ FlashFailed) =>
        /\ pc = "idle"
        /\ result = FlashError
        /\ Engine = pre

\* a write to a Data object that already holds bytes has failed in the flash,
\* with the receipt counter in use
C2_Witness ==
    /\ request.op = "Write"
    /\ FlashFailed
    /\ Len(request.data) > 0
    /\ pre.objects[pre.current].offset > 0
    /\ pre.crc_receipt_interval > 0

\* C3 as stated: when the flash erase of create{Data, size} fails, process()
\* returns an error and the Data object's size, offset and checksum and the
\* active-object index are as the request found them.
C3_FailedEraseLeavesObjectStore ==
    (request.op = "Create" /\ FlashFailed) =>
        /\ pc = "idle"
        /\ result = FlashError
        /\ objects = pre.objects
        /\ current = pre.current

\* C4: in every reachable state each object's offset is the total length of
\* the payloads of the successful writes since its last reset (a create
\* request for it, or abort) and its checksum state is the checksum folded
\* over exactly those bytes in order.
C4_ChecksumReflectsWritten ==
    \A i \in Slots :
        /\ objects[i].offset = Len(written[i])
        /\ objects[i].crc = Crc32Add(Crc32Init, written[i])
        /\ Crc32Finish(objects[i].crc) = Crc32Finish(Crc32Add(Crc32Init, written[i]))

\* the active object holds two bytes that arrived in two writes
C4_Witness ==
    /\ ReturnedOk
    /\ request.op = "Write"
    /\ Len(request.data) = 1
    /\ Len(written[current]) = 2
    /\ objects[current].offset = 2

\* C5 as stated: with the interval held at N over the k successful writes
\* since the last create or abort (or session start), floor(k/N) of the write
\* responses carried a checksum body when N > 0, the k-th one carrying it
\* exactly when N divides k, and every one of them carried it when N = 0.
C5_ReceiptThrottling ==
    (pc = "idle" /\ run.held /\ run.k - run.skip > 0) =>
        /\ run.n > 0 => run.bodies - run.skip_bodies = (run.k - run.skip) \div run.n
        /\ run.n = 0 => run.bodies - run.skip_bodies = run.k - run.skip
        /\ (request.op = "Write" /\ result.kind = "Ok") =>
               ((result.response.body # NoBody) <=>
                    (run.n = 0 \/ (run.k - run.skip) % run.n = 0))

\* C5 amended: the same with k counted from the last create that returned
\* Success, or abort (or session start): a create whose flash erase failed
\* does not restart the count.
C5_ReceiptThrottlingSinceCounterZeroed ==
    (pc = "idle" /\ run.held /\ run.k > 0) =>
        /\ run.n > 0 => run.bodies = run.k \div run.n
        /\ run.n = 0 => run.bodies = run.k
        /\ (request.op = "Write" /\ result.kind = "Ok") =>
               ((result.response.body # NoBody) <=>
                    (run.n = 0 \/ run.k % run.n = 0))

\* three writes with the interval held at 2: one receipt, for the second
C5_Witness ==
    /\ pc = "idle"
    /\ run.held
    /\ run.n = 2
    /\ run.k = 3
    /\ run.bodies = 1
    /\ request.op = "Write"
    /\ result.kind = "Ok"
    /\ result.response.body = NoBody

\* C6: a write while the Data object is active issues its flash write at the
\* offset the request found, and the engine is not updated nor a response
\* produced until that write has completed; no request issues more than one
\* flash operation and no two are in progress together.
C6_FlashWriteBeforeUpdate ==
    /\ pc = "write" =>
           /\ flash_ops = <<FlashOp("write", pre.objects[pre.current].offset,
                                    Len(request.data))>>
           /\ Engine = pre
           /\ result = NoResult
    /\ (ReturnedOk /\ request.op = "Write"
            /\ pre.objects[pre.current].obj_type = "Data") =>
           flash_ops = FlashEnded(<<FlashOp("write", pre.objects[pre.current].offset,
                                            Len(request.data))>>, "ok")
    /\ Len(flash_ops) <= 1
    /\ Cardinality({i \in 1..Len(flash_ops) : flash_ops[i].status = "pending"}) <= 1
    /\ pc = "idle" => \A i \in 1..Len(flash_ops) : flash_ops[i].status # "pending"

\* a write to a Data object that already holds bytes is waiting for the flash
C6_Witness ==
    /\ pc = "write"
    /\ Len(request.data) > 0
    /\ objects[current].offset > 0
    /\ flash_ops[1].offset = objects[current].offset

\* C7: only a create request changes the active-object index; a write
\* advances the object that was active when it arrived and leaves the other
\* one alone, whatever select came before it.
C7_OnlyCreateActivates ==
    /\ request.op # "Create" => current = pre.current
    /\ (ReturnedOk /\ request.op = "Write") =>
           /\ objects[pre.current] = AppendData(pre.objects[pre.current], request.data)
           /\ objects[1 - pre.current] = pre.objects[1 - pre.current]

\* select(Command) has been answered while the Data object, already written
\* to, stays the active one
C7_Witness ==
    /\ ReturnedOk
    /\ request.op = "Select"
    /\ request.obj_type = "Command"
    /\ result.response.body.kind = "Select"
    /\ current = OBJ_TYPE_DATA_IDX
    /\ objects[OBJ_TYPE_DATA_IDX].offset > 0

\* C8: a successful create{kind, declared_size}, kind Command or Data, leaves
\* that object with offset 0, checksum at the seed and size declared_size,
\* makes it active, zeroes the receipt counter, leaves the other object as it
\* was, and has erased flash [0, declared_size) once, before responding,
\* exactly when kind is Data.
C8_CreateResetsObject ==
    /\ (ReturnedOk /\ request.op = "Create" /\ ObjIdx(request.obj_type) # -1) =>
           LET idx == ObjIdx(request.obj_type)
           IN  /\ objects[idx] = [obj_type |-> request.obj_type, offset |-> 0,
                                  crc |-> Crc32Init, size |-> request.obj_size]
               /\ Crc32Finish(objects[idx].crc) = <<0, 0>>
               /\ current = idx
               /\ receipt_count = 0
               /\ objects[1 - idx] = pre.objects[1 - idx]
               /\ flash_ops = IF request.obj_type = "Data"
                              THEN FlashEnded(<<FlashOp("erase", 0, request.obj_size)>>, "ok")
                              ELSE <<>>
    /\ pc = "erase" =>
           /\ result = NoResult
           /\ flash_ops = <<FlashOp("erase", 0, request.obj_size)>>

\* create{Data} has succeeded on a Data object that held bytes, with the
\* Command object holding bytes too and the receipt counter running
C8_Witness ==
    /\ ReturnedOk
    /\ request.op = "Create"
    /\ request.obj_type = "Data"
    /\ pre.objects[OBJ_TYPE_DATA_IDX].offset > 0
    /\ pre.objects[OBJ_TYPE_COMMAND_IDX].offset > 0
    /\ pre.receipt_count > 0

\* C9: abort leaves both objects with offset 0 and checksum at the seed and
\* the receipt counter 0, keeps both declared sizes, and a second abort
\* changes nothing more.
C9_AbortIdempotent ==
    (ReturnedOk /\ request.op = "Abort") =>
        /\ \A i \in Slots :
               /\ objects[i].offset = 0
               /\ objects[i].crc = Crc32Init
               /\ objects[i].size = pre.objects[i].size
               /\ objects[i].obj_type = pre.objects[i].obj_type
        /\ receipt_count = 0
        /\ current = pre.current
        /\ crc_receipt_interval = pre.crc_receipt_interval
        /\ AbortEngine(Engine) = Engine
        /\ AbortEngine(AbortEngine(pre)) = AbortEngine(pre)

\* abort has acted on an engine with bytes in both objects and the receipt
\* counter running
C9_Witness ==
    /\ ReturnedOk
    /\ request.op = "Abort"
    /\ pre.objects[OBJ_TYPE_COMMAND_IDX].offset > 0
    /\ pre.objects[OBJ_TYPE_DATA_IDX].offset > 0
    /\ pre.receipt_count > 0

\* C10: every request whose flash operation, if any, did not fail is answered
\* with result code Success and the response carries that request; select of
\* a kind that is neither Command nor Data is answered Success without body.
C10_SuccessUnlessFlashFailed ==
    /\ (Returned /\ ~FlashFailed) =>
           /\ result.kind = "Ok"
           /\ result.response.result = "Success"
           /\ result.response.request = request
    /\ (Returned /\ request.op = "Select" /\ ObjIdx(request.obj_type) = -1) =>
           result = Success(request, NoBody)

\* select{Invalid} has been answered
C10_Witness ==
    /\ Returned
    /\ request.op = "Select"
    /\ request.obj_type = "Invalid"
    /\ result.kind = "Ok"
    /\ result.response.body = NoBody

\* the requests that only read the engine
ReadOnlyOps == {"ProtocolVersion", "Crc", "Execute", "Select", "MtuGet", "Ping",
                "HwVersion", "FwVersion"}

\* C11: protocol-version, crc, execute, select, mtu-get, ping, hw-version and
\* fw-version leave both objects, the active index, the receipt interval and
\* the receipt counter as they were and issue no flash operation; crc answers
\* with the active object's offset and checksum, ping echoes the request's id.
C11_ReadOnlyRequests ==
    (Returned /\ request.op \in ReadOnlyOps) =>
        /\ Engine = pre
        /\ flash_ops = <<>>
        /\ request.op = "Crc" =>
               result = Success(request,
                                [kind |-> "Crc",
                                 offset |-> pre.objects[pre.current].offset,
                                 crc |-> Crc32Finish(pre.objects[pre.current].crc)])
        /\ request.op = "Ping" =>
               result = Success(request, [kind |-> "Ping", id |-> request.id])

\* crc has been answered while the Command object is active, holds bytes, and
\* the Data object holds a different number of bytes, with the receipt counter
\* running
C11_Witness ==
    /\ Returned
    /\ request.op = "Crc"
    /\ current = OBJ_TYPE_COMMAND_IDX
    /\ objects[OBJ_TYPE_COMMAND_IDX].offset > 0
    /\ objects[OBJ_TYPE_DATA_IDX].offset # objects[OBJ_TYPE_COMMAND_IDX].offset
    /\ receipt_count > 0

\* C12: a write while the Command object is active advances that object's
\* offset and checksum by the payload and issues no flash operation; a flash
\* write is issued only by a write while the Data object is active, a flash
\* erase only by create{Data}.
C12_FlashOnlyForData ==
    /\ (Returned /\ request.op = "Write"
            /\ pre.objects[pre.current].obj_type = "Command") =>
           /\ flash_ops = <<>>
           /\ result.kind = "Ok"
           /\ objects[pre.current].offset
                  = pre.objects[pre.current].offset + Len(request.data)
           /\ objects[pre.current].crc
                  = Crc32Add(pre.objects[pre.current].crc, request.data)
    /\ \A i \in 1..Len(flash_ops) :
           /\ flash_ops[i].op = "write" =>
                  /\ request.op = "Write"
                  /\ pre.objects[pre.current].obj_type = "Data"
           /\ flash_ops[i].op = "erase" =>
                  /\ request.op = "Create"
                  /\ request.obj_type = "Data"

\* a non-empty write has been taken by the Command object while the Data
\* object, created earlier, holds bytes too
C12_Witness ==
    /\ Returned
    /\ request.op = "Write"
    /\ Len(request.data) > 0
    /\ pre.current = OBJ_TYPE_COMMAND_IDX
    /\ pre.objects[OBJ_TYPE_DATA_IDX].offset > 0
    /\ flash_ops = <<>>

\* C13: with interval 0, a crc request that directly follows a successful
\* write is answered with the body of that write's response; a successful
\* write to the Data object as create{Data} left it leaves the offset at the
\* payload's length and its flash write was at offset 0; a crc request that directly follows
\* abort is answered with offset 0 and the checksum of the seed state.
C13_CrcRepeatsWriteBody ==
    [][/\ (ReturnedOk /\ request.op = "Write" /\ crc_receipt_interval = 0
               /\ request'.op = "Crc") =>
              result'.response.body = result.response.body
       /\ (request'.op = "Write" /\ pc' = "idle" /\ result'.kind = "Ok"
               /\ pre'.current = OBJ_TYPE_DATA_IDX
               /\ pre'.objects[OBJ_TYPE_DATA_IDX].offset = 0) =>
              /\ objects'[current'].offset = Len(request'.data)
              /\ flash_ops' = <<[FlashOp("write", 0, Len(request'.data))
                                   EXCEPT !.status = "ok"]>>
       /\ (ReturnedOk /\ request.op = "Abort" /\ request'.op = "Crc") =>
              result'.response.body
                  = [kind |-> "Crc", offset |-> 0, crc |-> Crc32Finish(Crc32Init)]
      ]_vars

\* with interval 0, crc has been answered for the Data object holding the
\* bytes of a write
C13_Witness ==
    /\ ReturnedOk
    /\ request.op = "Crc"
    /\ crc_receipt_interval = 0
    /\ current = OBJ_TYPE_DATA_IDX
    /\ Len(written[OBJ_TYPE_DATA_IDX]) > 0
    /\ result.response.body.offset = Len(written[OBJ_TYPE_DATA_IDX])


\* the response of the last call, encoded into a buffer of len bytes
Encoded(len) == DfuResponse_encode(result.response, len)

\* C14 as claimed: a response buffer of 21 bytes takes every response the
\* engine produces, so encoding into it never fails for lack of room.
C14_Buffer21Suffices ==
    ReturnedOk => ~Encoded(21).err

\* C14: a response buffer of 23 bytes takes every response the engine
\* produces; the hw-version response fills all 23 and does not fit in 22, so
\* 21 bytes are not enough.
C14_Buffer23Suffices ==
    /\ ReturnedOk => (~Encoded(23).err /\ Encoded(23).pos <= 23)
    /\ (ReturnedOk /\ request.op = "HwVersion") =>
           (Encoded(23).pos = 23 /\ Encoded(22).err)

\* hw-version has been answered
C14_Witness ==
    /\ ReturnedOk
    /\ request.op = "HwVersion"
    /\ Len(Encoded(23).bytes) = 23

\* C15 as claimed: the body of a write response encodes as one u32
\* checksum: 4 body bytes, 7 bytes for the whole response.
C15_WriteBodyIsChecksum ==
    (ReturnedOk /\ request.op = "Write" /\ result.response.body # NoBody) =>
        /\ DfuResponseBody_encode(result.response.body, 512).pos = 4
        /\ DfuResponseBody_encode(result.response.body, 512).bytes
               = LeBytes32(Crc32Finish(objects[current].crc))
        /\ Encoded(512).pos = 7

\* C15: the body of a write response, when there is one, encodes as the crc
\* body does: the object's offset (u32) and then its checksum (u32), 8 body
\* bytes, 11 bytes for the whole response after 0x60, 0x08 and the result.
C15_WriteBodyIsOffsetAndChecksum ==
    (ReturnedOk /\ request.op = "Write" /\ result.response.body # NoBody) =>
        /\ DfuResponseBody_encode(result.response.body, 512).pos = 8
        /\ DfuResponseBody_encode(result.response.body, 512).bytes
               = <<objects[current].offset % 256, objects[current].offset \div 256,
                   0, 0>>
                 \o LeBytes32(Crc32Finish(objects[current].crc))
        /\ Encoded(512).pos = 11
        /\ SubSeq(Encoded(512).bytes, 1, 3) = <<96, 8, 1>>
        /\ SubSeq(Encoded(512).bytes, 4, 11)
               = DfuResponseBody_encode(result.response.body, 512).bytes

\* a write of a non-empty payload has been answered with a body
C15_Witness ==
    /\ ReturnedOk
    /\ request.op = "Write"
    /\ Len(request.data) > 0
    /\ result.response.body # NoBody
    /\ objects[current].offset > 0

\* value as n little-endian bytes
Le(value, n) == [i \in 1..n |-> (value \div (256 ^ (i - 1))) % 256]

\* the number a u32 held in halves stands for, below 2^31
U32Value(u) == u[1] * 65536 + u[2]

\* the bytes the response-body table gives a body
TableBody(body) ==
    CASE body.kind = "None" -> <<>>
      [] body.kind = "ProtocolVersion" -> <<body.version>>
      [] body.kind = "Crc" -> Le(body.offset, 4) \o Le(U32Value(body.crc), 4)
      [] body.kind = "Select" ->
             Le(body.max_size, 4) \o Le(body.offset, 4) \o Le(U32Value(body.crc), 4)
      [] body.kind = "Mtu" -> Le(body.mtu, 2)
      [] body.kind = "Write" -> Le(U32Value(body.crc), 4)
      [] body.kind = "Ping" -> <<body.id>>
      [] body.kind = "HwVersion" ->
             Le(body.part, 4) \o Le(body.variant, 4) \o Le(body.rom_size, 4)
                 \o Le(body.ram_size, 4) \o Le(body.rom_page_size, 4)
      [] body.kind = "FwVersion" ->
             <<FirmwareType_into(body.ftype)>> \o Le(body.version, 4)
                 \o Le(body.addr, 4) \o Le(body.len, 4)

\* the bytes of a whole response: 0x60, the request's operation code, the
\* result code, the sub-code of ExtError, the body
TableResponse(response) ==
    <<96, DfuRequest_code(response.request), DfuResult_code(response.result)>>
        \o (IF response.result = "ExtError" THEN <<response.ext>> ELSE <<>>)
        \o TableBody(response.body)

\* C16: an encoded response is 0x60, the request's operation code, the
\* one-byte result code, one sub-code byte exactly when the result is
\* ExtError, then the body if any with its fields little-endian in the
\* table's order; the returned length is the number of bytes written; into a
\* buffer shorter than that encode fails.
C16_EncodedLayout ==
    (codec.call = "encode" /\ codec.done) =>
        IF codec.len >= Len(TableResponse(codec.response))
        THEN /\ ~codec.encoded.err
             /\ codec.encoded.bytes = TableResponse(codec.response)
             /\ codec.encoded.pos = Len(codec.encoded.bytes)
        ELSE codec.encoded.err

\* a select response with result ExtError has been encoded into a buffer it
\* fills to the last byte
C16_Witness ==
    /\ codec.call = "encode"
    /\ codec.done
    /\ codec.response.result = "ExtError"
    /\ codec.response.body.kind = "Select"
    /\ ~codec.encoded.err
    /\ codec.encoded.pos = codec.len
    /\ codec.encoded.bytes[2] = 6
    /\ SubSeq(codec.encoded.bytes, 5, 16) = <<0, 2, 0, 0, 2, 1, 0, 0, 120, 86, 52, 18>>

\* the bytes that follow the operation code in a request of that code, the
\* payload of write apart; -1 for a code that names no operation
FieldsLen(op) ==
    CASE op = 1 -> 5
      [] op = 2 -> 2
      [] op \in {6, 9, 11} -> 1
      [] op \in {0, 3, 4, 7, 8, 10, 12} -> 0
      [] OTHER -> -1

\* C17: decode fails for a buffer that is empty, that starts with a code
\* outside 0x00-0x04, 0x06-0x0C, or that ends before the fields of its
\* operation (create 1+4 bytes, set-receipt-notification 2, select, ping and
\* fw-version 1); a failed decode returns no request.
C17_MalformedRejected ==
    (codec.call = "decode" /\ codec.done
         /\ \/ codec.data = <<>>
            \/ FieldsLen(codec.data[1]) = -1
            \/ Len(codec.data) < 1 + FieldsLen(codec.data[1])) =>
        codec.decoded = ReadErr

\* decode has refused a create request one byte short of its size field
C17_Witness ==
    /\ codec.call = "decode"
    /\ codec.done
    /\ Len(codec.data) = 5
    /\ codec.data[1] = 1
    /\ codec.data[2] = 2
    /\ ~codec.decoded.ok

\* C18: a successful decode returns as trailing slice the input bytes after
\* the operation code and the operation's fixed fields; for write the payload
\* is every byte after the operation code and the trailing slice is empty.
C18_TrailingSlice ==
    (codec.call = "decode" /\ codec.done /\ codec.decoded.ok) =>
        IF codec.data[1] = 8
        THEN /\ codec.decoded.request.op = "Write"
             /\ codec.decoded.request.data = Tail(codec.data)
             /\ codec.decoded.rest = <<>>
        ELSE /\ DfuRequest_code(codec.decoded.request) = codec.data[1]
             /\ codec.decoded.rest
                    = SubSeq(codec.data, 2 + FieldsLen(codec.data[1]), Len(codec.data))
             /\ SubSeq(codec.data, 1, 1 + FieldsLen(codec.data[1])) \o codec.decoded.rest
                    = codec.data

\* a select request followed by two bytes it does not use has been decoded
C18_Witness ==
    /\ codec.call = "decode"
    /\ codec.done
    /\ codec.decoded.ok
    /\ codec.data[1] = 6
    /\ Len(codec.data) = 4
    /\ Len(codec.decoded.rest) = 2

\* C19: when the last event handled is a write to the control
\* characteristic whose decode fails, the program has not panicked, so that
\* the next request can be processed.
C19_MalformedNeverPanics ==
    (gatt.characteristic = "control" /\ ~DfuRequest_decode(gatt.control).ok) =>
        ~gatt.panicked

\* the task that is inside a request/response cycle
InProcess == {t \in Tasks : gatt.task[t] = "process"}

\* C20: at most one connection task is inside process() at a time: a task
\* is inside gatt_server::run, and so inside any request/response cycle,
\* only while it holds the mutex, from the request's arrival through a
\* pending flash operation to the response.
C20_OneTaskInProcess ==
    /\ Cardinality(InProcess) <= 1
    /\ \A t \in Tasks : gatt.task[t] \in {"run", "process"} => gatt.lock = t
    /\ pc # "idle" => InProcess = {gatt.lock}

\* one task awaits the flash write of its request while another task waits
\* for the mutex
C20_Witness ==
    /\ pc = "write"
    /\ \E t, u \in Tasks :
           /\ gatt.task[t] = "process"
           /\ gatt.lock = t
           /\ gatt.task[u] = "lock"

\* C21: the active index is 0 or 1, slot 0 holds an object of kind Command
\* and slot 1 one of kind Data, and the firmware and hardware metadata are
\* those given at creation, so that hw-version and fw-version always answer
\* with the same body.
C21_SlotsAndMetadataFixed ==
    /\ current \in {OBJ_TYPE_COMMAND_IDX, OBJ_TYPE_DATA_IDX}
    /\ objects[OBJ_TYPE_COMMAND_IDX].obj_type = "Command"
    /\ objects[OBJ_TYPE_DATA_IDX].obj_type = "Data"
    /\ fw_info = FirmwareInfo
    /\ hw_info = HardwareInfo
    /\ (ReturnedOk /\ request.op = "HwVersion") =>
           result.response.body
               = [kind |-> "HwVersion", part |-> HardwareInfo.part,
                  variant |-> HardwareInfo.variant, rom_size |-> HardwareInfo.rom_size,
                  ram_size |-> HardwareInfo.ram_size,
                  rom_page_size |-> HardwareInfo.rom_page_size]
    /\ (ReturnedOk /\ request.op = "FwVersion") =>
           result.response.body
               = [kind |-> "FwVersion", ftype |-> FirmwareInfo.ftype,
                  version |-> FirmwareInfo.version, addr |-> FirmwareInfo.addr,
                  len |-> FirmwareInfo.len]

\* hw-version has been answered after both objects were created anew and
\* took bytes, with the Data object active
C21_Witness ==
    /\ ReturnedOk
    /\ request.op = "HwVersion"
    /\ current = OBJ_TYPE_DATA_IDX
    /\ objects[OBJ_TYPE_COMMAND_IDX].size # COMMAND_OBJECT_SIZE
    /\ objects[OBJ_TYPE_DATA_IDX].size # FlashCapacity
    /\ objects[OBJ_TYPE_COMMAND_IDX].offset > 0
    /\ objects[OBJ_TYPE_DATA_IDX].offset > 0

\* C27: before any request the Command object is active with size 512, the
\* Data object has the flash capacity as size, both offsets are 0 and both
\* checksums at the seed, interval and receipt counter are 0; a write that
\* finds the engine so (no create has stored an object, no byte has been
\* taken) advances the Command object, issues no flash operation and is
\* answered with a checksum body.
C27_FreshEngine ==
    /\ request = NoRequest =>
           /\ current = 0
           /\ objects[0] = [obj_type |-> "Command", offset |-> 0, crc |-> Crc32Init,
                            size |-> 512]
           /\ objects[1] = [obj_type |-> "Data", offset |-> 0, crc |-> Crc32Init,
                            size |-> FlashCapacity]
           /\ crc_receipt_interval = 0
           /\ receipt_count = 0
           /\ pc = "idle"
    /\ (request.op = "Write"
            /\ pre.objects[0].size = 512 /\ pre.objects[1].size = FlashCapacity
            /\ pre.objects[0].offset = 0 /\ pre.objects[1].offset = 0
            /\ pre.crc_receipt_interval = 0) =>
           /\ pc = "idle"
           /\ flash_ops = <<>>
           /\ current = 0
           /\ objects[0].offset = Len(request.data)
           /\ objects[0].crc = Crc32Add(Crc32Init, request.data)
           /\ objects[1] = pre.objects[1]
           /\ result = Success(request,
                               [kind |-> "Crc", offset |-> Len(request.data),
                                crc |-> Crc32Finish(objects[0].crc)])

\* the first write an engine gets, no create having acted on it, is one of
\* two bytes, and it has been answered
C27_Witness ==
    /\ ReturnedOk
    /\ request.op = "Write"
    /\ Len(request.data) = 2
    /\ pre.objects[0].size = 512
    /\ pre.objects[0].offset = 0
    /\ pre.objects[1].size = FlashCapacity
    /\ objects[0].offset = 2
    /\ run.k = 1

\* C23: whenever the receipt interval N is above 0 the receipt counter is
\* below N (so that N successful writes in a row include one answered with a
\* checksum body), also after set-receipt-notification has changed the
\* interval in the middle of a write stream.
C23_CounterBelowInterval ==
    (pc = "idle" /\ crc_receipt_interval > 0) => receipt_count < crc_receipt_interval

----------------------------------------------------------------------------
(* A long stream of writes: the client sets the receipt interval while the *)
(* counter is low and then sends empty packets to the Command object, as   *)
(* many as it likes. The counter is a u16, so the stream is finite state.  *)

StreamIntervals == 1..MaxInterval

StreamSetReceiptNotification(interval) ==
    /\ receipt_count < MaxCount
    /\ SetReceiptNotification(interval)

StreamWrite ==
    /\ run.held => run.k < MaxWrites
    /\ WriteArm(<<>>)

StreamNext ==
    \/ (\E interval \in StreamIntervals : StreamSetReceiptNotification(interval))
          /\ UNCHANGED transport
    \/ StreamWrite /\ UNCHANGED transport

SpecStream == Init /\ [][StreamNext]_vars

----------------------------------------------------------------------------
(* The engine together with its flash: what each erase and each write that *)
(* process() awaits does to the memory.                                    *)

\* the bytes [offset, offset + len)
FlashRange(offset, len) == {b \in 0..(offset + len - 1) : b >= offset}

\* flash.erase(0, obj_size) has returned Ok
FlashErased(size) == [erased |-> size, dirty |-> {}]

\* flash.write(offset, data) has programmed the first n bytes of data
FlashProgrammed(f, offset, n) == [f EXCEPT !.dirty = @ \cup FlashRange(offset, n)]

FlashEraseOk ==
    /\ EraseOk
    /\ flash' = FlashErased(flash_ops[1].len)
    /\ UNCHANGED <<codec, gatt>>

\* an erase that returns Err leaves the range as it was
FlashEraseErr ==
    /\ EraseErr
    /\ UNCHANGED transport

FlashWriteOk ==
    /\ WriteOk
    /\ flash' = FlashProgrammed(flash, flash_ops[1].offset, flash_ops[1].len)
    /\ UNCHANGED <<codec, gatt>>

\* a write that returns Err may have programmed any prefix of its payload
FlashWriteErr ==
    /\ WriteErr
    /\ \E n \in 0..flash_ops[1].len :
           flash' = FlashProgrammed(flash, flash_ops[1].offset, n)
    /\ UNCHANGED <<codec, gatt>>

FlashNext ==
    \/ (\E obj_type \in ObjectTypes, obj_size \in Sizes : Create(obj_type, obj_size))
          /\ UNCHANGED transport
    \/ FlashEraseOk
    \/ FlashEraseErr
    \/ (\E data \in Payloads : Write(data)) /\ UNCHANGED transport
    \/ FlashWriteOk
    \/ FlashWriteErr
    \/ Abort /\ UNCHANGED transport

SpecFlash == Init /\ [][FlashNext]_vars

\* C22: every write that process() hands to the flash lies inside the range
\* erased by the most recent successful create of a Data object and covers
\* no byte programmed since that erase: offset + length is at most the
\* declared size, an erase of [0, size) that returned Ok precedes it, and no
\* earlier write since that erase overlaps it; also after an abort, after a
\* failed erase and after a failed write.
C22_WritesInsideErasedRange ==
    pc = "write" =>
        /\ flash_ops[1].offset + flash_ops[1].len <= objects[OBJ_TYPE_DATA_IDX].size
        /\ flash.erased = objects[OBJ_TYPE_DATA_IDX].size
        /\ flash_ops[1].offset + flash_ops[1].len <= flash.erased
        /\ FlashRange(flash_ops[1].offset, flash_ops[1].len) \cap flash.dirty = {}

\* C24: the arithmetic of a write never wraps: the receipt counter plus 1
\* fits in 16 bits whenever a write would increment it, and the stored offset
\* of each object is the number of bytes accepted since its last reset.
C24_WriteArithmeticNeverWraps ==
    /\ crc_receipt_interval > 0 => receipt_count + 1 <= 65535
    /\ \A i \in {0, 1} : objects[i].offset = Len(written[i])

\* C26: the op code of the request that a buffer decodes to is the first byte
\* of the buffer, so the second byte of the encoded response to that request,
\* whatever its result, is the op code the client sent.
C26_OpCodeRoundTrip ==
    (codec.call = "decode" /\ codec.done /\ codec.decoded.ok) =>
        /\ DfuRequest_code(codec.decoded.request) = codec.data[1]
        /\ \A res \in PlainResults :
               LET buf == DfuResponse_encode([request |-> codec.decoded.request,
                                              result |-> res, body |-> NoBody],
                                             MaxResponseBuf)
               IN  ~buf.err /\ buf.bytes[1] = DFU_RESPONSE_OP_CODE
                            /\ buf.bytes[2] = codec.data[1]

\* a select request has been decoded from a buffer whose first byte is 0x06
C26_Witness ==
    /\ codec.call = "decode"
    /\ codec.done
    /\ codec.decoded.ok
    /\ codec.data[1] = 6
    /\ codec.decoded.request.op = "Select"

\* C25: a create of kind Invalid leaves both objects and the active index as
\* they were, erases nothing, zeroes the receipt counter and answers Success
\* without a body; a create or select whose kind byte is 3 or more is refused
\* by decode and is not handed to the engine.
C25_CreateInvalidAndUnknownKinds ==
    /\ (ReturnedOk /\ request.op = "Create" /\ request.obj_type = "Invalid") =>
           /\ objects = pre.objects
           /\ current = pre.current
           /\ flash_ops = <<>>
           /\ receipt_count = 0
           /\ result = Success(request, NoBody)
    /\ (Len(gatt.control) >= 2 /\ gatt.control[1] \in {1, 6} /\ gatt.control[2] >= 3) =>
           /\ ~DfuRequest_decode(gatt.control).ok
           /\ gatt.task[1] # "process"
           /\ gatt.panicked
    /\ request # NoRequest /\ request.op \in {"Create", "Select"} =>
           request.obj_type \in ObjectTypes

\* a create of kind Invalid has been answered by an engine whose Command
\* object had accepted a packet and whose receipt counter was 1
C25_Witness ==
    /\ ReturnedOk
    /\ request.op = "Create"
    /\ request.obj_type = "Invalid"
    /\ gatt.control = <<1, 0, 1, 0, 0, 0>>
    /\ pre.receipt_count = 1
    /\ pre.objects[0].offset = 1

\* a create whose kind byte is 3 has been written to the control point
C25_WitnessUnknownKind ==
    /\ gatt.control = <<1, 3, 1, 0, 0, 0>>
    /\ gatt.panicked

====
